---- MODULE Spec2Model ----
(***************************************************************************)
(* Model of the email verifier worker (src/worker.js): the verification    *)
(* pipeline verifyEmail, its DNS-over-HTTPS helpers getMXRecords and       *)
(* hasARecords, the suspicion heuristic getDomainInfo and the request      *)
(* handler handleRequest.                                                  *)
(*                                                                         *)
(* Strings are sequences of one-character strings.  A JavaScript value is  *)
(* a record [t |-> type tag, v |-> number]: v is the value of a number,    *)
(* the length of a string or array, 1/0 for true/false, 0 otherwise.       *)
(***************************************************************************)
EXTENDS Integers, Sequences, FiniteSets, TLC

\* ------------------------------------------------------------------ bounds
\* Longest enumerated input string given to verifyEmail.
MaxEmailLen == 5
\* Longest enumerated domain string given to getDomainInfo.
MaxDomainLen == 5
\* Most records in an Answer array of a resolver response.
MaxRecords == 2

\* -------------------------------------------------------------- characters
LowerLetters == <<"a","b","c","d","e","f","g","h","i","j","k","l","m","n","o","p","q","r","s","t","u","v","w","x","y","z">>

UpperLetters == <<"A","B","C","D","E","F","G","H","I","J","K","L","M","N","O","P","Q","R","S","T","U","V","W","X","Y","Z">>

Digits == {"0","1","2","3","4","5","6","7","8","9"}

IsLower(ch) == \E i \in 1..Len(LowerLetters) : LowerLetters[i] = ch

IsUpper(ch) == \E i \in 1..Len(UpperLetters) : UpperLetters[i] = ch

IsDigit(ch) == ch \in Digits

\* String.prototype.toLowerCase on one character of the inputs' alphabet.
ToLowerChar(ch) ==
    IF IsUpper(ch)
    THEN LowerLetters[CHOOSE i \in 1..Len(UpperLetters) : UpperLetters[i] = ch]
    ELSE ch

toLowerCase(s) == [i \in 1..Len(s) |-> ToLowerChar(s[i])]

\* All strings over alphabet of length at most n.
Strings(alphabet, n) == UNION {[1..k -> alphabet] : k \in 0..n}

\* String.prototype.split(sep) for a one-character separator.
RECURSIVE split(_, _)
split(s, sep) ==
    IF \E i \in 1..Len(s) : s[i] = sep
    THEN LET i == CHOOSE j \in 1..Len(s) :
                     s[j] = sep /\ \A k \in 1..(j - 1) : s[k] # sep
         IN  <<SubSeq(s, 1, i - 1)>> \o split(SubSeq(s, i + 1, Len(s)), sep)
    ELSE <<s>>

\* Array destructuring: the n-th element, or undefined (here the empty string,
\* which is falsy like undefined) when the array is shorter.
Element(parts, n) == IF n <= Len(parts) THEN parts[n] ELSE <<>>

\* ------------------------------------------------------- static configuration
\* Variant of EMAIL_REGEX: /^[^@]+@[^@]+\.[^@]*$/, nothing required after the dot.
EMAIL_REGEX_EmptyAfterDot(s) ==
    \E i \in 1..Len(s), j \in 1..Len(s) :
        /\ s[i] = "@"
        /\ i >= 2
        /\ \A k \in 1..(i - 1) : s[k] # "@"
        /\ j >= i + 2
        /\ \A k \in (i + 1)..(j - 1) : s[k] # "@"
        /\ s[j] = "."
        /\ \A k \in (j + 1)..Len(s) : s[k] # "@"

\* /^[^@]+@[^@]+\.[^@]+$/ tested against s.
EMAIL_REGEX(s) ==
    \E i \in 1..Len(s), j \in 1..Len(s) :
        /\ s[i] = "@"
        /\ i >= 2
        /\ \A k \in 1..(i - 1) : s[k] # "@"
        /\ j >= i + 2
        /\ \A k \in (i + 1)..(j - 1) : s[k] # "@"
        /\ s[j] = "."
        /\ j < Len(s)
        /\ \A k \in (j + 1)..Len(s) : s[k] # "@"

DISPOSABLE_DOMAINS ==
    { <<"m","a","i","l","i","n","a","t","o","r",".","c","o","m">>,
      <<"1","0","m","i","n","u","t","e","m","a","i","l",".","c","o","m">>,
      <<"g","u","e","r","r","i","l","l","a","m","a","i","l",".","c","o","m">>,
      <<"t","e","m","p","m","a","i","l",".","o","r","g">>,
      <<"t","h","r","o","w","a","w","a","y",".","e","m","a","i","l">>,
      <<"m","a","i","l","d","r","o","p",".","c","c">> }

ROLE_BASED_PREFIXES ==
    { <<"i","n","f","o">>,
      <<"s","u","p","p","o","r","t">>,
      <<"a","d","m","i","n">>,
      <<"s","a","l","e","s">>,
      <<"c","o","n","t","a","c","t">>,
      <<"n","o","r","e","p","l","y">>,
      <<"n","o","-","r","e","p","l","y">> }

\* ------------------------------------------------------------ getDomainInfo
\* /\d{5,}/ : five or more consecutive digits anywhere.
LongNumbersPattern(d) ==
    \E i \in 1..Len(d) :
        /\ i + 4 <= Len(d)
        /\ \A k \in i..(i + 4) : IsDigit(d[k])

SuspiciousKeywords ==
    { <<"t","e","m","p">>, <<"t","e","s","t">>, <<"f","a","k","e">>, <<"s","p","a","m">> }

\* /temp|test|fake|spam/i : one of the keywords anywhere, ignoring case.
KeywordsPattern(d) ==
    \E kw \in SuspiciousKeywords, i \in 1..Len(d) :
        /\ i + Len(kw) - 1 <= Len(d)
        /\ \A k \in 1..Len(kw) : ToLowerChar(d[i + k - 1]) = kw[k]

\* Variant of ShortNumbersPattern: /^[a-z]{1,3}\d+\./ without the i flag.
ShortNumbersPattern_CaseSensitive(d) ==
    \E n \in 1..3, m \in 1..Len(d) :
        /\ n + m + 1 <= Len(d)
        /\ \A k \in 1..n : IsLower(d[k])
        /\ \A k \in (n + 1)..(n + m) : IsDigit(d[k])
        /\ d[n + m + 1] = "."

\* /^[a-z]{1,3}\d+\./i : at the start, one to three letters (ignoring case),
\* then one or more digits, then a dot.
ShortNumbersPattern(d) ==
    \E n \in 1..3, m \in 1..Len(d) :
        /\ n + m + 1 <= Len(d)
        /\ \A k \in 1..n : IsLower(ToLowerChar(d[k]))
        /\ \A k \in (n + 1)..(n + m) : IsDigit(d[k])
        /\ d[n + m + 1] = "."

getDomainInfo(d) ==
    [suspicious |-> LongNumbersPattern(d) \/ KeywordsPattern(d) \/ ShortNumbersPattern(d)]

\* -------------------------------------------------------- JavaScript values
Undefined == [t |-> "undefined", v |-> 0]

Null == [t |-> "null", v |-> 0]

Num(n) == [t |-> "number", v |-> n]

Str(n) == [t |-> "string", v |-> n]

Arr(n) == [t |-> "array", v |-> n]

Obj == [t |-> "object", v |-> 0]

Bool(b) == [t |-> "boolean", v |-> IF b THEN 1 ELSE 0]

\* ToBoolean.
Truthy(x) ==
    CASE x.t \in {"undefined", "null"} -> FALSE
      [] x.t \in {"number", "string", "boolean"} -> x.v # 0
      [] OTHER -> TRUE

\* x.length: a number for strings and arrays, undefined for the rest.
Length(x) == IF x.t \in {"string", "array"} THEN Num(x.v) ELSE Undefined

\* ------------------------------------------------------- resolver responses
\* The values the Answer member of a DNS-JSON object takes in the model: missing,
\* null, numbers, strings, arrays of records, a plain object.
AnswerValues ==
    {Undefined, Null, Num(0), Num(7), Str(0), Str(1), Obj} \cup {Arr(n) : n \in 0..MaxRecords}

NoData == [top |-> "none", Answer |-> Undefined]

\* What a fetch of the resolver can end in: the fetch rejects (network_error),
\* the body is not JSON (not_json), or the body parses to null, to a number, or
\* to an object whose Answer member is one of AnswerValues.
Responses ==
    { [kind |-> "network_error", data |-> NoData],
      [kind |-> "not_json", data |-> NoData],
      [kind |-> "json", data |-> [top |-> "null", Answer |-> Undefined]],
      [kind |-> "json", data |-> [top |-> "number", Answer |-> Undefined]] }
    \cup { [kind |-> "json", data |-> [top |-> "object", Answer |-> a]] : a \in AnswerValues }

NoResponse == [kind |-> "none", data |-> NoData]

\* fetch(...) then response.json() then data.Answer: throws when the fetch
\* rejects, when the body is not JSON, and when data is null.
ReadAnswerThrows(resp) ==
    \/ resp.kind = "network_error"
    \/ resp.kind = "not_json"
    \/ resp.data.top = "null"

\* data.Answer (undefined on a number and on an object without the member).
ReadAnswer(resp) == IF resp.data.top = "object" THEN resp.data.Answer ELSE Undefined

\* Variant of getMXRecords: the catch returns [] as hasARecords' returns false.
getMXRecords_SwallowsError(resp) ==
    IF ReadAnswerThrows(resp)
    THEN [threw |-> FALSE, value |-> Arr(0)]
    ELSE [threw |-> FALSE,
          value |-> IF Truthy(ReadAnswer(resp)) THEN ReadAnswer(resp) ELSE Arr(0)]

\* getMXRecords: [threw, value]; value is data.Answer || [].
getMXRecords(resp) ==
    IF ReadAnswerThrows(resp)
    THEN [threw |-> TRUE, value |-> Undefined]
    ELSE [threw |-> FALSE,
          value |-> IF Truthy(ReadAnswer(resp)) THEN ReadAnswer(resp) ELSE Arr(0)]

\* hasARecords: data.Answer && data.Answer.length > 0, false on any throw.
hasARecords(resp) ==
    IF ReadAnswerThrows(resp)
    THEN Bool(FALSE)
    ELSE IF Truthy(ReadAnswer(resp))
         THEN Bool(Length(ReadAnswer(resp)).t = "number" /\ Length(ReadAnswer(resp)).v > 0)
         ELSE ReadAnswer(resp)

\* !mxRecords || mxRecords.length === 0
NoMXRecords(mxRecords) ==
    \/ ~Truthy(mxRecords)
    \/ Length(mxRecords) = Num(0)

\* ------------------------------------------------------------------ inputs
\* Addresses that exercise the deny lists and the suspicion heuristic.
SampleEmails ==
    { <<"u","s","e","r","@","M","a","i","l","i","n","a","t","o","r",".","C","O","M">>,
      <<"i","n","f","o","@","m","a","i","l","i","n","a","t","o","r",".","c","o","m">>,
      <<"I","n","f","o","@","e","x","a","m","p","l","e",".","c","o","m">>,
      <<"u","s","e","r","@","l","e","g","i","t","c","o","m","p","a","n","y",".","c","o","m">>,
      <<"u","s","e","r","@","t","e","s","t","1","2","3",".","c","o">>,
      <<"u","@","a","b","1","2",".","c","o">>,
      <<"u","@","A","B","1","2",".","c","o">>,
      <<"u","@","m","a","i","l","1","2","3","4","5",".","i","o">>,
      <<"i","n","f","o","@","t","e","s","t","1","2","3",".","c","o">> }

\* Every string over {a, @, .} up to MaxEmailLen, and the samples.
Emails == Strings({"a", "@", "."}, MaxEmailLen) \cup SampleEmails

\* Domain strings given to getDomainInfo on its own.
DomainStrings == Strings({"t", "e", "s", "Z", "1", "."}, MaxDomainLen)

Methods == {"OPTIONS", "GET", "POST"}

\* Request bodies: not JSON, JSON without an email member, JSON with one.
Bodies ==
    { [kind |-> "not_json", email |-> <<>>], [kind |-> "no_email", email |-> <<>>] }
    \cup { [kind |-> "email", email |-> e] : e \in Emails }

\* -------------------------------------------------------------------- state
Calls == {"c1", "c2"}

MainCall == "c1"

VARIABLES
    pc,         \* position of each call: idle, await_mx, mx_settled, await_a,
                \* a_settled, done; domain_info for getDomainInfo run on its own
    caller,     \* who invoked verifyEmail: none, handleRequest, export
    email,      \* the argument of verifyEmail
    local,      \* const [local, domain] = email.split('@')
    domain,
    queries,    \* the record types of the fetches issued to the resolver, in order
    mxResp,     \* what the MX fetch ended in
    aResp,      \* what the A fetch ended in
    mxRecords,  \* const mxRecords
    hasARecord, \* const hasARecord
    domainInfo, \* const domainInfo
    result,     \* the value verifyEmail returned
    response    \* the Response handleRequest returned

vars == <<pc, caller, email, local, domain, queries, mxResp, aResp, mxRecords,
          hasARecord, domainInfo, result, response>>

NoResult == [status |-> "none", reason |-> "none"]

Verdict(s, r) == [status |-> s, reason |-> r]

NoHttp == [http |-> 0, status |-> "none", reason |-> "none"]

NoDomainInfo == [suspicious |-> FALSE]

\* new Response(JSON.stringify(result), ...): HTTP 200 with the verdict.
ResultResponse(res) == [http |-> 200, status |-> res.status, reason |-> res.reason]

\* The catch of handleRequest: HTTP 500, status error, reason internal_error.
InternalErrorResponse == [http |-> 500, status |-> "error", reason |-> "internal_error"]

Init ==
    /\ pc = [c \in Calls |-> "idle"]
    /\ caller = [c \in Calls |-> "none"]
    /\ email = [c \in Calls |-> <<>>]
    /\ local = [c \in Calls |-> <<>>]
    /\ domain = [c \in Calls |-> <<>>]
    /\ queries = [c \in Calls |-> <<>>]
    /\ mxResp = [c \in Calls |-> NoResponse]
    /\ aResp = [c \in Calls |-> NoResponse]
    /\ mxRecords = [c \in Calls |-> Undefined]
    /\ hasARecord = [c \in Calls |-> Undefined]
    /\ domainInfo = [c \in Calls |-> NoDomainInfo]
    /\ result = [c \in Calls |-> NoResult]
    /\ response = [c \in Calls |-> NoHttp]

\* ------------------------------------------------------------------ actions
\* verifyEmail returns res to its caller by; handleRequest then serialises it.
Return(c, res, by) ==
    /\ pc' = [pc EXCEPT ![c] = "done"]
    /\ result' = [result EXCEPT ![c] = res]
    /\ response' = [response EXCEPT ![c] =
                       IF by = "handleRequest" THEN ResultResponse(res) ELSE NoHttp]

\* Variant of verifyEmailChecks: the role-based test before the disposable test.
verifyEmailChecks_RoleFirst(e) ==
    LET parts == split(e, "@")
        l == Element(parts, 1)
        d == Element(parts, 2)
    IN  IF ~EMAIL_REGEX(e) THEN Verdict("invalid", "bad_syntax")
        ELSE IF l = <<>> \/ d = <<>> THEN Verdict("invalid", "bad_syntax")
        ELSE IF toLowerCase(l) \in ROLE_BASED_PREFIXES
             THEN Verdict("invalid", "role_based")
        ELSE IF toLowerCase(d) \in DISPOSABLE_DOMAINS
             THEN Verdict("invalid", "disposable_domain")
        ELSE NoResult

\* The checks of verifyEmail that precede the MX lookup: the verdict they
\* return, or NoResult when the call goes on to the lookup.
verifyEmailChecks(e) ==
    LET parts == split(e, "@")
        l == Element(parts, 1)
        d == Element(parts, 2)
    IN  IF ~EMAIL_REGEX(e) THEN Verdict("invalid", "bad_syntax")
        ELSE IF l = <<>> \/ d = <<>> THEN Verdict("invalid", "bad_syntax")
        ELSE IF toLowerCase(d) \in DISPOSABLE_DOMAINS
             THEN Verdict("invalid", "disposable_domain")
        ELSE IF toLowerCase(l) \in ROLE_BASED_PREFIXES
             THEN Verdict("invalid", "role_based")
        ELSE NoResult

\* Variant of verifyEmail: the MX fetch started before the checks.
verifyEmail_FetchBeforeChecks(c, e, by) ==
    /\ pc[c] = "idle"
    /\ caller' = [caller EXCEPT ![c] = by]
    /\ email' = [email EXCEPT ![c] = e]
    /\ IF EMAIL_REGEX(e)
       THEN /\ local' = [local EXCEPT ![c] = Element(split(e, "@"), 1)]
            /\ domain' = [domain EXCEPT ![c] = Element(split(e, "@"), 2)]
       ELSE UNCHANGED <<local, domain>>
    /\ queries' = [queries EXCEPT ![c] = Append(@, "MX")]
    /\ IF verifyEmailChecks(e) # NoResult
       THEN Return(c, verifyEmailChecks(e), by)
       ELSE /\ pc' = [pc EXCEPT ![c] = "await_mx"]
            /\ UNCHANGED <<result, response>>
    /\ UNCHANGED <<mxResp, aResp, mxRecords, hasARecord, domainInfo>>

\* verifyEmail(e) from its invocation by `by` to its first await: an early
\* return, or the fetch of the MX records.
verifyEmail(c, e, by) ==
    /\ pc[c] = "idle"
    /\ caller' = [caller EXCEPT ![c] = by]
    /\ email' = [email EXCEPT ![c] = e]
    /\ IF EMAIL_REGEX(e)
       THEN /\ local' = [local EXCEPT ![c] = Element(split(e, "@"), 1)]
            /\ domain' = [domain EXCEPT ![c] = Element(split(e, "@"), 2)]
       ELSE UNCHANGED <<local, domain>>
    /\ IF verifyEmailChecks(e) # NoResult
       THEN /\ Return(c, verifyEmailChecks(e), by)
            /\ UNCHANGED queries
       ELSE /\ pc' = [pc EXCEPT ![c] = "await_mx"]
            /\ queries' = [queries EXCEPT ![c] = Append(@, "MX")]
            /\ UNCHANGED <<result, response>>
    /\ UNCHANGED <<mxResp, aResp, mxRecords, hasARecord, domainInfo>>

\* The resolver answers the MX fetch, or the fetch fails.
ResolverAnswersMX(c) ==
    /\ pc[c] = "await_mx"
    /\ \E r \in Responses : mxResp' = [mxResp EXCEPT ![c] = r]
    /\ pc' = [pc EXCEPT ![c] = "mx_settled"]
    /\ UNCHANGED <<caller, email, local, domain, queries, aResp, mxRecords,
                   hasARecord, domainInfo, result, response>>

\* Variant of verifyEmailAfterMX: the A fetch issued before the MX answer is
\* examined.
verifyEmailAfterMX_AFetchFirst(c) ==
    /\ pc[c] = "mx_settled"
    /\ LET mx == getMXRecords(mxResp[c])
       IN  IF mx.threw
           THEN /\ Return(c, Verdict("risky", "dns_timeout"), caller[c])
                /\ UNCHANGED <<mxRecords, queries>>
           ELSE /\ mxRecords' = [mxRecords EXCEPT ![c] = mx.value]
                /\ queries' = [queries EXCEPT ![c] = Append(@, "A")]
                /\ IF NoMXRecords(mx.value)
                   THEN Return(c, Verdict("invalid", "no_mx"), caller[c])
                   ELSE /\ pc' = [pc EXCEPT ![c] = "await_a"]
                        /\ UNCHANGED <<result, response>>
    /\ UNCHANGED <<caller, email, local, domain, mxResp, aResp, hasARecord, domainInfo>>

\* verifyEmail resumes with the outcome of getMXRecords: the catch, the
\* no_mx return, or the fetch of the A records.
verifyEmailAfterMX(c) ==
    /\ pc[c] = "mx_settled"
    /\ LET mx == getMXRecords(mxResp[c])
       IN  IF mx.threw
           THEN /\ Return(c, Verdict("risky", "dns_timeout"), caller[c])
                /\ UNCHANGED <<mxRecords, queries>>
           ELSE /\ mxRecords' = [mxRecords EXCEPT ![c] = mx.value]
                /\ IF NoMXRecords(mx.value)
                   THEN /\ Return(c, Verdict("invalid", "no_mx"), caller[c])
                        /\ UNCHANGED queries
                   ELSE /\ pc' = [pc EXCEPT ![c] = "await_a"]
                        /\ queries' = [queries EXCEPT ![c] = Append(@, "A")]
                        /\ UNCHANGED <<result, response>>
    /\ UNCHANGED <<caller, email, local, domain, mxResp, aResp, hasARecord, domainInfo>>

\* The resolver answers the A fetch, or the fetch fails.
ResolverAnswersA(c) ==
    /\ pc[c] = "await_a"
    /\ \E r \in Responses : aResp' = [aResp EXCEPT ![c] = r]
    /\ pc' = [pc EXCEPT ![c] = "a_settled"]
    /\ UNCHANGED <<caller, email, local, domain, queries, mxResp, mxRecords,
                   hasARecord, domainInfo, result, response>>

\* Variant of FinalVerdict: a missing A record reported under a reason of its own.
FinalVerdict_NoARecordReason(has, info) ==
    IF info.suspicious
    THEN Verdict("risky", "suspicious_domain")
    ELSE IF ~Truthy(has)
         THEN Verdict("risky", "no_a_record")
         ELSE Verdict("valid", "dns_verified")

\* Variant of FinalVerdict: a missing A record counted as suspicion.
FinalVerdict_GatedByARecord(has, info) ==
    IF info.suspicious \/ ~Truthy(has)
    THEN Verdict("risky", "suspicious_domain")
    ELSE Verdict("valid", "dns_verified")

\* The verdict once hasARecord and domainInfo are known.
FinalVerdict(has, info) ==
    IF info.suspicious
    THEN Verdict("risky", "suspicious_domain")
    ELSE Verdict("valid", "dns_verified")

\* verifyEmail resumes with the outcome of hasARecords, calls getDomainInfo
\* and returns.
verifyEmailAfterA(c) ==
    /\ pc[c] = "a_settled"
    /\ hasARecord' = [hasARecord EXCEPT ![c] = hasARecords(aResp[c])]
    /\ domainInfo' = [domainInfo EXCEPT ![c] = getDomainInfo(domain[c])]
    /\ Return(c, FinalVerdict(hasARecords(aResp[c]), getDomainInfo(domain[c])), caller[c])
    /\ UNCHANGED <<caller, email, local, domain, queries, mxResp, aResp, mxRecords>>

\* handleRequest answers without calling verifyEmail.
Respond(c, r) ==
    /\ pc[c] = "idle"
    /\ pc' = [pc EXCEPT ![c] = "done"]
    /\ response' = [response EXCEPT ![c] = r]
    /\ UNCHANGED <<caller, email, local, domain, queries, mxResp, aResp, mxRecords,
                   hasARecord, domainInfo, result>>

\* handleRequest: the preflight, the method check, the parse of the body, the
\* test of the email member, and the call of verifyEmail.
handleRequest(c) ==
    \E method \in Methods, body \in Bodies :
        IF method = "OPTIONS" THEN Respond(c, [http |-> 200, status |-> "none", reason |-> "none"])
        ELSE IF method # "POST"
             THEN Respond(c, [http |-> 405, status |-> "none", reason |-> "none"])
        ELSE IF body.kind = "not_json" THEN Respond(c, InternalErrorResponse)
        ELSE IF body.kind = "no_email" \/ body.email = <<>>
             THEN Respond(c, [http |-> 400, status |-> "none", reason |-> "none"])
        ELSE verifyEmail(c, body.email, "handleRequest")

\* verifyEmail called as the function the module exports.
verifyEmailExported(c) == \E e \in Emails : verifyEmail(c, e, "export")

Next ==
    \E c \in {MainCall} :
        \/ handleRequest(c)
        \/ verifyEmailExported(c)
        \/ ResolverAnswersMX(c)
        \/ verifyEmailAfterMX(c)
        \/ ResolverAnswersA(c)
        \/ verifyEmailAfterA(c)

Spec == Init /\ [][Next]_vars

\* Progress of the code's own continuations: once a fetch has settled, the
\* event loop runs the continuation of verifyEmail.  Nothing obliges the
\* resolver to answer.
FairSpec ==
    /\ Spec
    /\ WF_vars(verifyEmailAfterMX(MainCall))
    /\ WF_vars(verifyEmailAfterA(MainCall))

\* ------------------------------------------- two runs on the same address
\* The addresses of the paired runs: a role-based one, a suspicious one and
\* an unremarkable one.
PairEmails ==
    { <<"I","n","f","o","@","e","x","a","m","p","l","e",".","c","o","m">>,
      <<"u","s","e","r","@","t","e","s","t","1","2","3",".","c","o">>,
      <<"u","s","e","r","@","l","e","g","i","t","c","o","m","p","a","n","y",".","c","o","m">> }

\* verifyEmail called for an address; a second run is given the address of
\* the first.
PairedCall(c) ==
    \E e \in PairEmails :
        /\ \A d \in Calls : caller[d] # "none" => email[d] = e
        /\ verifyEmail(c, e, "export")

NextPair ==
    \E c \in Calls :
        \/ PairedCall(c)
        \/ ResolverAnswersMX(c)
        \/ verifyEmailAfterMX(c)
        \/ ResolverAnswersA(c)
        \/ verifyEmailAfterA(c)

SpecPair == Init /\ [][NextPair]_vars

\* ------------------------------------------------ getDomainInfo on its own
InitDomainInfo ==
    /\ pc = [c \in Calls |-> IF c = MainCall THEN "domain_info" ELSE "idle"]
    /\ caller = [c \in Calls |-> "none"]
    /\ email = [c \in Calls |-> <<>>]
    /\ local = [c \in Calls |-> <<>>]
    /\ domain \in {[c \in Calls |-> IF c = MainCall THEN d ELSE <<>>] : d \in DomainStrings}
    /\ queries = [c \in Calls |-> <<>>]
    /\ mxResp = [c \in Calls |-> NoResponse]
    /\ aResp = [c \in Calls |-> NoResponse]
    /\ mxRecords = [c \in Calls |-> Undefined]
    /\ hasARecord = [c \in Calls |-> Undefined]
    /\ domainInfo = [c \in Calls |-> NoDomainInfo]
    /\ result = [c \in Calls |-> NoResult]
    /\ response = [c \in Calls |-> NoHttp]

getDomainInfoCall(c) ==
    /\ pc[c] = "domain_info"
    /\ domainInfo' = [domainInfo EXCEPT ![c] = getDomainInfo(domain[c])]
    /\ pc' = [pc EXCEPT ![c] = "done"]
    /\ UNCHANGED <<caller, email, local, domain, queries, mxResp, aResp, mxRecords,
                   hasARecord, result, response>>

NextDomainInfo == \E c \in {MainCall} : getDomainInfoCall(c)

SpecDomainInfo == InitDomainInfo /\ [][NextDomainInfo]_vars

\* =================================================================== claims
\* Vocabulary of the claims, stated over the inputs of a call: the address
\* and what the resolver's fetches ended in.
Called(c) == caller[c] # "none"

Returned(c) == Called(c) /\ pc[c] = "done"

CountOf(s, ch) == Cardinality({i \in 1..Len(s) : s[i] = ch})

AtPos(s) == CHOOSE i \in 1..Len(s) : s[i] = "@"

TextBefore(s) == SubSeq(s, 1, AtPos(s) - 1)

TextAfter(s) == SubSeq(s, AtPos(s) + 1, Len(s))

\* Exactly one '@', text before and after it, and after it a '.' with text
\* on both sides.
WellFormedAddress(s) ==
    /\ CountOf(s, "@") = 1
    /\ TextBefore(s) # <<>>
    /\ TextAfter(s) # <<>>
    /\ \E k \in 1..Len(TextAfter(s)) :
           /\ TextAfter(s)[k] = "."
           /\ k > 1
           /\ k < Len(TextAfter(s))

EqualsIgnoringCase(x, y) ==
    /\ Len(x) = Len(y)
    /\ \A k \in 1..Len(x) : ToLowerChar(x[k]) = ToLowerChar(y[k])

InDisposableSet(d) == \E x \in DISPOSABLE_DOMAINS : EqualsIgnoringCase(x, d)

InRoleBasedSet(l) == \E x \in ROLE_BASED_PREFIXES : EqualsIgnoringCase(x, l)

\* The fetch failed, or its body could not be read as JSON data.
LookupFailed(resp) ==
    \/ resp.kind \in {"network_error", "not_json"}
    \/ resp.kind = "json" /\ resp.data.top = "null"

\* The body parsed and carries no Answer member, or a null one.
AnswerMissing(resp) ==
    /\ resp.kind = "json"
    /\ \/ resp.data.top = "number"
       \/ resp.data.top = "object" /\ resp.data.Answer.t \in {"undefined", "null"}

\* The body parsed and its Answer is a sequence of n records.
AnswerOfRecords(resp, n) ==
    /\ resp.kind = "json"
    /\ resp.data.top = "object"
    /\ resp.data.Answer = Arr(n)

AnswerEmpty(resp) == AnswerMissing(resp) \/ AnswerOfRecords(resp, 0)

\* The body parsed and its Answer is neither missing nor a sequence of records.
MalformedRecordSet(resp) ==
    /\ resp.kind = "json"
    /\ resp.data.top = "object"
    /\ resp.data.Answer.t \in {"number", "string", "object"}

SevenPairs ==
    { Verdict("invalid", "bad_syntax"), Verdict("invalid", "disposable_domain"),
      Verdict("invalid", "role_based"), Verdict("invalid", "no_mx"),
      Verdict("risky", "suspicious_domain"), Verdict("risky", "dns_timeout"),
      Verdict("valid", "dns_verified") }

\* C1: a completed call of verifyEmail has returned one of the seven
\* (status, reason) pairs of the table, whatever the input string and whatever
\* the DNS fetches ended in.
C1_ClosedVerdictSet == \A c \in Calls : Returned(c) => result[c] \in SevenPairs

C1_Witness ==
    \E c \in Calls :
        /\ Returned(c)
        /\ LookupFailed(mxResp[c])
        /\ result[c] = Verdict("risky", "dns_timeout")

\* The verdict of the first matching rule of the ordered decision sequence.
FirstMatch(e, resp) ==
    IF ~WellFormedAddress(e) THEN Verdict("invalid", "bad_syntax")
    ELSE IF InDisposableSet(TextAfter(e)) THEN Verdict("invalid", "disposable_domain")
    ELSE IF InRoleBasedSet(TextBefore(e)) THEN Verdict("invalid", "role_based")
    ELSE IF LookupFailed(resp) THEN Verdict("risky", "dns_timeout")
    ELSE IF AnswerEmpty(resp) THEN Verdict("invalid", "no_mx")
    ELSE IF getDomainInfo(TextAfter(e)).suspicious THEN Verdict("risky", "suspicious_domain")
    ELSE Verdict("valid", "dns_verified")

\* C2: for MX outcomes that are a failure, a missing answer or a sequence of
\* records, a completed call returns the verdict of the first rule that matches
\* in the order syntax, disposable, role-based, lookup failure, empty answer,
\* suspicion, valid.
C2_FirstMatchingRuleWins ==
    \A c \in Calls :
        (Returned(c) /\ ~MalformedRecordSet(mxResp[c]))
            => result[c] = FirstMatch(email[c], mxResp[c])

C2_Witness ==
    \E c \in Calls :
        /\ Returned(c)
        /\ getDomainInfo(domain[c]).suspicious
        /\ AnswerOfRecords(mxResp[c], 0)
        /\ result[c] = Verdict("invalid", "no_mx")

\* C3: a call that returned bad_syntax, disposable_domain or role_based has
\* issued no fetch to the resolver, neither MX nor A.
C3_NoQueryBeforeEarlyReturn ==
    \A c \in Calls :
        result[c].reason \in {"bad_syntax", "disposable_domain", "role_based"}
            => queries[c] = <<>> /\ mxResp[c] = NoResponse /\ aResp[c] = NoResponse

C3_Witness ==
    \E c \in Calls :
        /\ Returned(c)
        /\ result[c] = Verdict("invalid", "role_based")
        /\ queries[c] = <<>>

\* C4: when the MX fetch fails or its body cannot be read, the lookup yields
\* no answer, verifyEmail returns (risky, dns_timeout), and a caller over HTTP
\* receives that verdict and not an error.
C4_FailedLookupIsDnsTimeout ==
    \A c \in Calls :
        (Called(c) /\ pc[c] \notin {"await_mx", "mx_settled"} /\ LookupFailed(mxResp[c]))
            => /\ pc[c] = "done"
               /\ mxRecords[c] = Undefined
               /\ result[c] = Verdict("risky", "dns_timeout")
               /\ caller[c] = "handleRequest"
                      => response[c] = ResultResponse(Verdict("risky", "dns_timeout"))

C4_Witness ==
    \E c \in Calls :
        /\ Returned(c)
        /\ caller[c] = "handleRequest"
        /\ mxResp[c].kind = "not_json"
        /\ response[c] = ResultResponse(Verdict("risky", "dns_timeout"))

\* C5: every call of verifyEmail eventually returns, even when the resolver
\* never answers.
C5_EveryCallReturns == \A c \in {MainCall} : Called(c) ~> (pc[c] = "done")

\* C6: two completed runs on the same address with the same MX outcome return
\* the same verdict whatever their A fetches ended in, and a run whose A fetch
\* ended, in whatever way, returns neither dns_timeout nor an error.
C6_ALookupNeverChangesVerdict ==
    /\ \A c \in Calls, d \in Calls :
           (Returned(c) /\ Returned(d) /\ email[c] = email[d] /\ mxResp[c] = mxResp[d])
               => result[c] = result[d]
    /\ \A c \in Calls :
           (Returned(c) /\ aResp[c] # NoResponse)
               => /\ result[c] \in SevenPairs
                  /\ result[c].reason # "dns_timeout"

C6_Witness ==
    \E c \in Calls, d \in Calls :
        /\ Returned(c) /\ Returned(d)
        /\ email[c] = email[d]
        /\ mxResp[c] = mxResp[d]
        /\ aResp[c].kind = "network_error"
        /\ AnswerOfRecords(aResp[d], 1)
        /\ result[c] = result[d]

\* C7: a response that parses but carries a malformed record set is reported
\* as the internal_error outcome and is never turned into (valid, dns_verified).
C7_MalformedRecordSetIsInternalError ==
    \A c \in Calls :
        (Returned(c) /\ MalformedRecordSet(mxResp[c]))
            => /\ result[c] # Verdict("valid", "dns_verified")
               /\ caller[c] = "handleRequest" => response[c] = InternalErrorResponse

\* The three conditions of the heuristic as the claim words them.
RunOfFiveDigits(d) ==
    \E i \in 1..Len(d) : i + 4 <= Len(d) /\ \A k \in 0..4 : d[i + k] \in Digits

ContainsKeyword(d) ==
    \E kw \in SuspiciousKeywords, i \in 1..Len(d) :
        /\ i + Len(kw) - 1 <= Len(d)
        /\ EqualsIgnoringCase(SubSeq(d, i, i + Len(kw) - 1), kw)

\* d starts with one to three letters taken from `letters`, then one or more
\* digits, then a dot.
StartsShortLabel(d, letters) ==
    \E n \in 1..3, m \in 1..Len(d) :
        /\ n + m + 1 <= Len(d)
        /\ \A k \in 1..n : d[k] \in letters
        /\ \A k \in (n + 1)..(n + m) : d[k] \in Digits
        /\ d[n + m + 1] = "."

LowerSet == {LowerLetters[i] : i \in 1..Len(LowerLetters)}

UpperSet == {UpperLetters[i] : i \in 1..Len(UpperLetters)}

\* C8 as stated: suspicious iff five digits in a row, or a keyword, or a start
\* of one to three lowercase letters, digits and a dot.
C8_SuspiciousIffLowercaseRule ==
    \A c \in Calls :
        (pc[c] = "done" /\ ~Called(c))
            => (domainInfo[c].suspicious
                  <=> \/ RunOfFiveDigits(domain[c])
                      \/ ContainsKeyword(domain[c])
                      \/ StartsShortLabel(domain[c], LowerSet))

\* C8 amended: suspicious iff five digits in a row, or a keyword, or a start
\* of one to three letters of either case, digits and a dot.
C8_SuspiciousIffEitherCaseRule ==
    \A c \in Calls :
        (pc[c] = "done" /\ ~Called(c))
            => (domainInfo[c].suspicious
                  <=> \/ RunOfFiveDigits(domain[c])
                      \/ ContainsKeyword(domain[c])
                      \/ StartsShortLabel(domain[c], LowerSet \cup UpperSet))

C8_Witness ==
    \E c \in Calls :
        /\ pc[c] = "done" /\ ~Called(c)
        /\ domainInfo[c].suspicious
        /\ StartsShortLabel(domain[c], UpperSet)
        /\ ~RunOfFiveDigits(domain[c])
        /\ ~ContainsKeyword(domain[c])

\* C9: a call returns bad_syntax exactly when the input is not of the form
\* one '@', text before and after it, and a '.' after it with text on both
\* sides; bad_syntax always comes with status invalid.
C9_SyntaxStage ==
    \A c \in Calls :
        Called(c)
            => /\ (result[c].reason = "bad_syntax") <=> ~WellFormedAddress(email[c])
               /\ result[c].reason = "bad_syntax" => result[c].status = "invalid"

C9_Witness ==
    \E c \in Calls :
        /\ Called(c)
        /\ email[c] = <<"a", "@", ".", ".", "a">>
        /\ result[c].reason # "bad_syntax"
        /\ queries[c] = <<"MX">>

\* C10: a call issues at most one MX and one A fetch; the A fetch comes after
\* the MX fetch has ended in an answer that is not empty; a call that returned
\* dns_timeout or no_mx has issued the MX fetch and nothing else.
C10_OneQueryEachNoRetry ==
    \A c \in Calls :
        /\ queries[c] \in {<<>>, <<"MX">>, <<"MX", "A">>}
        /\ queries[c] = <<"MX", "A">>
               => /\ mxResp[c] # NoResponse
                  /\ ~LookupFailed(mxResp[c])
                  /\ ~AnswerEmpty(mxResp[c])
        /\ result[c].reason \in {"dns_timeout", "no_mx"} => queries[c] = <<"MX">>

C10_Witness ==
    \E c \in Calls :
        /\ Returned(c)
        /\ result[c] = Verdict("invalid", "no_mx")
        /\ AnswerMissing(mxResp[c])
        /\ queries[c] = <<"MX">>

====
